---- MODULE Spec2Model ----
(***************************************************************************)
(* A model of pkg/csi-util/utils.go of the OCI CSI node driver:            *)
(*   - VolumeLocks (TryAcquire / Release under one sync.Mutex),            *)
(*   - ExtractStorage (capacity range resolution),                         *)
(*   - ValidateFssId / FormatValidIp (remote volume handle parsing).       *)
(* Each component has its own specification over the shared variables;     *)
(* the variables of the other components stay at their initial values.     *)
(***************************************************************************)
EXTENDS Integers, Sequences, FiniteSets, TLC

VARIABLES
    locks,      \* VolumeLocks.locks: the set of held volume ids
    mux,        \* VolumeLocks.mux: NoProc when free, else the goroutine holding it
    pc,         \* per caller: position inside TryAcquire / Release
    arg,        \* per caller: the volumeID argument of the call in progress
    ret,        \* per caller: the value TryAcquire is returning, "true" or "false" ("none" otherwise)
    was,        \* history: per caller, whether its id was held when it took the mutex
    wins,       \* history: per id, TryAcquire calls that returned true since the last Delete
    holder,     \* history: per id, the caller whose Insert put the id in the set
    tracked,    \* the id whose ownership history is recorded (NoVol: none)
    inside,     \* history: per caller, whether it acquired the tracked id and has not
                \* called Release for it since
    foreign,    \* history: whether a Release removed the tracked id's entry of another
                \* caller since the id was last free with no caller inside
    capRange,   \* ExtractStorage: the *csi.CapacityRange argument
    capOut,     \* ExtractStorage: the (int64, error) result, once it has returned
    fssId,      \* ValidateFssId: the id argument
    fssOut,     \* ValidateFssId: the returned *FSSVolumeHandler, once it has returned
    fssBack,    \* the handler ValidateFssId returns for the serialized fssOut
    nodeIn,     \* GetNodeIpFamily: what the Nodes().Get call gives (error, labels)
    nodeOut     \* GetNodeIpFamily: the (*NodeIpFamily, error) result, once it has returned

lockVars == <<locks, mux, pc, arg, ret, was, wins, holder, tracked, inside, foreign>>
capVars == <<capRange, capOut>>
fssVars == <<fssId, fssOut, fssBack>>
nodeVars == <<nodeIn, nodeOut>>
vars == <<locks, mux, pc, arg, ret, was, wins, holder, tracked, inside, foreign,
         capRange, capOut, fssId, fssOut, fssBack,
         nodeIn, nodeOut>>

----------------------------------------------------------------------------
(* Bounds of the model *)

NumCallers == 2
NumVolumes == 2

Procs == 1..NumCallers
VolumeIDs == 1..NumVolumes
NoProc == 0
NoVol == 0

----------------------------------------------------------------------------
(* VolumeLocks *)

\* sets.String operations used by VolumeLocks
HasInverted(set, id) == id \notin set
Has(set, id) == id \in set
Insert(set, id) == set \cup {id}
DeleteNothing(set, id) == set
DeleteAll(set, id) == {}
Delete(set, id) == set \ {id}

\* sync.Mutex: Lock proceeds only when the mutex is free
MuxAlwaysFree(m) == TRUE
MuxFree(m) == m = NoProc

\* NewVolumeLocks: an empty set and a zero-value (unlocked) mutex
InitLocks ==
    /\ locks = {}
    /\ mux = NoProc
    /\ pc = [p \in Procs |-> "idle"]
    /\ arg = [p \in Procs |-> NoVol]
    /\ ret = [p \in Procs |-> "none"]
    /\ was = [p \in Procs |-> FALSE]
    /\ wins = [v \in VolumeIDs |-> 0]
    /\ holder = [v \in VolumeIDs |-> NoProc]
    /\ tracked = NoVol
    /\ inside = [p \in Procs |-> FALSE]
    /\ foreign = FALSE

\* a caller enters TryAcquire(v)
CallTryAcquire(p, v) ==
    /\ pc[p] = "idle"
    /\ pc' = [pc EXCEPT ![p] = "ta_lock"]
    /\ arg' = [arg EXCEPT ![p] = v]
    /\ UNCHANGED <<locks, mux, ret, wins, holder, was, tracked, inside, foreign, capVars, fssVars, nodeVars>>

\* vl.mux.Lock()
TryAcquireLock(p) ==
    /\ pc[p] = "ta_lock"
    /\ MuxFree(mux)
    /\ mux' = p
    /\ was' = [was EXCEPT ![p] = arg[p] \in locks]
    /\ pc' = [pc EXCEPT ![p] = "ta_has"]
    /\ UNCHANGED <<locks, arg, ret, wins, holder, tracked, inside, foreign, capVars, fssVars, nodeVars>>

\* a TryAcquire that waits for the id to become free instead of returning false
TryAcquireHasBlocking(p) ==
    /\ pc[p] = "ta_has"
    /\ ~Has(locks, arg[p])
    /\ pc' = [pc EXCEPT ![p] = "ta_insert"]
    /\ UNCHANGED <<locks, mux, arg, ret, wins, holder, was, tracked, inside, foreign, capVars, fssVars, nodeVars>>

\* a TryAcquire that inserts the id without looking whether it is held
TryAcquireHasSkipped(p) ==
    /\ pc[p] = "ta_has"
    /\ pc' = [pc EXCEPT ![p] = "ta_insert"]
    /\ UNCHANGED <<locks, mux, arg, ret, wins, holder, was, tracked, inside, foreign, capVars, fssVars, nodeVars>>

\* if vl.locks.Has(volumeID) { return false }
TryAcquireHas(p) ==
    /\ pc[p] = "ta_has"
    /\ IF Has(locks, arg[p])
       THEN /\ ret' = [ret EXCEPT ![p] = "false"]
            /\ pc' = [pc EXCEPT ![p] = "ta_unlock"]
       ELSE /\ ret' = ret
            /\ pc' = [pc EXCEPT ![p] = "ta_insert"]
    /\ UNCHANGED <<locks, mux, arg, wins, holder, was, tracked, inside, foreign, capVars, fssVars, nodeVars>>

\* vl.locks.Insert(volumeID); return true
TryAcquireInsert(p) ==
    /\ pc[p] = "ta_insert"
    /\ locks' = Insert(locks, arg[p])
    /\ ret' = [ret EXCEPT ![p] = "true"]
    /\ pc' = [pc EXCEPT ![p] = "ta_unlock"]
    /\ wins' = [wins EXCEPT ![arg[p]] = IF @ < 2 THEN @ + 1 ELSE @]
    /\ holder' = [holder EXCEPT ![arg[p]] = p]
    /\ UNCHANGED <<mux, arg, was, tracked, inside, foreign, capVars, fssVars, nodeVars>>

\* defer vl.mux.Unlock(), then the caller has the result
TryAcquireUnlock(p) ==
    /\ pc[p] = "ta_unlock"
    /\ mux' = NoProc
    /\ was' = [was EXCEPT ![p] = FALSE]
    /\ pc' = [pc EXCEPT ![p] = "idle"]
    /\ arg' = [arg EXCEPT ![p] = NoVol]
    /\ ret' = [ret EXCEPT ![p] = "none"]
    /\ inside' = [inside EXCEPT ![p] = @ \/ (ret[p] = "true" /\ arg[p] = tracked)]
    /\ UNCHANGED <<locks, wins, holder, tracked, foreign, capVars, fssVars, nodeVars>>

\* a caller enters Release(v)
CallRelease(p, v) ==
    /\ pc[p] = "idle"
    /\ pc' = [pc EXCEPT ![p] = "rel_lock"]
    /\ arg' = [arg EXCEPT ![p] = v]
    /\ inside' = [inside EXCEPT ![p] = @ /\ v # tracked]
    /\ foreign' = (foreign /\ ~(tracked \notin locks /\ \A q \in Procs : ~inside'[q]))
    /\ UNCHANGED <<locks, mux, ret, wins, holder, was, tracked, capVars, fssVars, nodeVars>>

\* vl.mux.Lock()
ReleaseLock(p) ==
    /\ pc[p] = "rel_lock"
    /\ MuxFree(mux)
    /\ mux' = p
    /\ was' = [was EXCEPT ![p] = arg[p] \in locks]
    /\ pc' = [pc EXCEPT ![p] = "rel_delete"]
    /\ UNCHANGED <<locks, arg, ret, wins, holder, tracked, inside, foreign, capVars, fssVars, nodeVars>>

\* vl.locks.Delete(volumeID)
ReleaseDelete(p) ==
    /\ pc[p] = "rel_delete"
    /\ locks' = Delete(locks, arg[p])
    /\ pc' = [pc EXCEPT ![p] = "rel_unlock"]
    /\ wins' = [wins EXCEPT ![arg[p]] = 0]
    /\ holder' = [holder EXCEPT ![arg[p]] = NoProc]
    /\ foreign' = IF arg[p] = tracked
                  THEN /\ foreign \/ holder[tracked] \notin {p, NoProc}
                       /\ \E q \in Procs : inside[q]
                  ELSE foreign
    /\ UNCHANGED <<mux, arg, ret, was, tracked, inside, capVars, fssVars, nodeVars>>

\* defer vl.mux.Unlock()
ReleaseUnlock(p) ==
    /\ pc[p] = "rel_unlock"
    /\ mux' = NoProc
    /\ was' = [was EXCEPT ![p] = FALSE]
    /\ pc' = [pc EXCEPT ![p] = "idle"]
    /\ arg' = [arg EXCEPT ![p] = NoVol]
    /\ UNCHANGED <<locks, ret, wins, holder, tracked, inside, foreign, capVars, fssVars, nodeVars>>

\* the steps of a call in progress (everything but entering a call)
Step(p) ==
    \/ TryAcquireLock(p)
    \/ TryAcquireHas(p)
    \/ TryAcquireInsert(p)
    \/ TryAcquireUnlock(p)
    \/ ReleaseLock(p)
    \/ ReleaseDelete(p)
    \/ ReleaseUnlock(p)

----------------------------------------------------------------------------
(* ExtractStorage *)

\* Byte counts are kept in units of 1 MiB (ExtractStorage only compares and
\* returns them, it does no arithmetic), so that 32 TiB + 1 unit is representable.
GiB == 1024
TiB == 1024 * GiB

MinimumVolumeSizeInBytes == 50 * GiB
MaximumVolumeSizeInBytes == 32 * TiB
defaultVolumeSizeInBytes == MinimumVolumeSizeInBytes

\* how far around each boundary the inputs are drawn
CapSpread == 1

\* the sizes tried for requiredBytes and limitBytes: negative, unset (0), and
\* the neighbourhood of the smallest size, the minimum, a mid size, the maximum
\* and a size beyond it
CapBytes ==
    {-1, 0} \cup
    {b + d : b \in {1 + CapSpread, MinimumVolumeSizeInBytes, 10 * TiB,
                    MaximumVolumeSizeInBytes, 100 * TiB},
             d \in (0 - CapSpread)..CapSpread}

NilRange == [nil |-> TRUE, required |-> 0, limit |-> 0]
CapRanges == {NilRange} \cup [nil : {FALSE}, required : CapBytes, limit : CapBytes]

NotReturned == [done |-> FALSE, size |-> 0, err |-> ""]
Returned(size, err) == [done |-> TRUE, size |-> size, err |-> err]

MaxOfIntFlipped(a, b) == IF a > b THEN b ELSE a
MaxOfInt(a, b) == IF a > b THEN a ELSE b

\* (*csi.CapacityRange).GetRequiredBytes / GetLimitBytes: 0 on a nil range
GetRequiredBytes(r) == IF r.nil THEN 0 ELSE r.required
GetLimitBytes(r) == IF r.nil THEN 0 ELSE r.limit

ExtractStorage(r) ==
    IF r.nil THEN Returned(defaultVolumeSizeInBytes, "")
    ELSE
    LET requiredBytes == GetRequiredBytes(r)
        requiredSet == 0 < requiredBytes
        limitBytes == GetLimitBytes(r)
        limitSet == 0 < limitBytes
    IN  IF ~requiredSet /\ ~limitSet
            THEN Returned(defaultVolumeSizeInBytes, "")
        ELSE IF requiredSet /\ limitSet /\ limitBytes < requiredBytes
            THEN Returned(0, "limit can not be less than required size")
        ELSE IF requiredSet /\ ~limitSet
            THEN Returned(MaxOfInt(requiredBytes, MinimumVolumeSizeInBytes), "")
        ELSE IF limitSet
            THEN Returned(MaxOfInt(limitBytes, MinimumVolumeSizeInBytes), "")
        ELSE IF requiredSet /\ requiredBytes > MaximumVolumeSizeInBytes
            THEN Returned(0, "required can not exceed maximum supported volume size")
        ELSE IF ~requiredSet /\ limitSet /\ limitBytes > MaximumVolumeSizeInBytes
            THEN Returned(0, "limit can not exceed maximum supported volume size")
        ELSE IF requiredSet /\ limitSet
            THEN Returned(MaxOfInt(requiredBytes, limitBytes), "")
        ELSE IF requiredSet
            THEN Returned(requiredBytes, "")
        ELSE IF limitSet
            THEN Returned(limitBytes, "")
        ELSE Returned(defaultVolumeSizeInBytes, "")

CapIdle == capRange = NilRange /\ capOut = NotReturned
----------------------------------------------------------------------------
(* Strings: a Go string is modelled as the sequence of its characters *)

Digits == <<"0", "1", "2", "3", "4", "5", "6", "7", "8", "9">>
LowerHex == <<"a", "b", "c", "d", "e", "f">>
UpperHex == <<"A", "B", "C", "D", "E", "F">>
Letters ==
    {"a", "b", "c", "d", "e", "f", "g", "h", "i", "j", "k", "l", "m",
     "n", "o", "p", "q", "r", "s", "t", "u", "v", "w", "x", "y", "z",
     "A", "B", "C", "D", "E", "F", "G", "H", "I", "J", "K", "L", "M",
     "N", "O", "P", "Q", "R", "S", "T", "U", "V", "W", "X", "Y", "Z"}

Range(f) == {f[i] : i \in DOMAIN f}
IsDigit(c) == c \in Range(Digits)
IsHex(c) == c \in Range(Digits) \cup Range(LowerHex) \cup Range(UpperHex)
IsLetter(c) == c \in Letters
DigitVal(c) == (CHOOSE i \in DOMAIN Digits : Digits[i] = c) - 1
HexVal(c) ==
    IF IsDigit(c) THEN DigitVal(c)
    ELSE IF c \in Range(LowerHex) THEN 9 + (CHOOSE i \in DOMAIN LowerHex : LowerHex[i] = c)
    ELSE 9 + (CHOOSE i \in DOMAIN UpperHex : UpperHex[i] = c)

\* Go's s[a:b], with Go's 0-based indices
Slice(s, a, b) == SubSeq(s, a + 1, b)

\* strings.Index(s, c) and strings.LastIndex(s, c) for a one-character c:
\* the 0-based position, -1 when c does not occur
Index(s, c) ==
    IF \E i \in DOMAIN s : s[i] = c
    THEN (CHOOSE i \in DOMAIN s : s[i] = c /\ \A j \in 1..(i - 1) : s[j] # c) - 1
    ELSE -1
LastIndex(s, c) ==
    IF \E i \in DOMAIN s : s[i] = c
    THEN (CHOOSE i \in DOMAIN s : s[i] = c /\ \A j \in (i + 1)..Len(s) : s[j] # c) - 1
    ELSE -1

\* strings.Trim(s, cutset): s without its leading and trailing characters of cutset
RECURSIVE TrimLeft(_, _)
TrimLeft(s, cutset) ==
    IF s # <<>> /\ Head(s) \in cutset THEN TrimLeft(Tail(s), cutset) ELSE s
RECURSIVE TrimRight(_, _)
TrimRight(s, cutset) ==
    IF s # <<>> /\ s[Len(s)] \in cutset
    THEN TrimRight(SubSeq(s, 1, Len(s) - 1), cutset) ELSE s
Trim(s, cutset) == TrimRight(TrimLeft(s, cutset), cutset)

Brackets == {"[", "]"}

----------------------------------------------------------------------------
(* net.ParseIP of the Go standard library (netip.ParseAddr without zones):   *)
(* the parsed address as its 16 bytes, NilIP when the text is no IP literal  *)

NilIP == <<>>

\* netip.parseIPv4Fields: four decimal octets 0..255 separated by dots, no
\* leading zeros; i is the 0-based scan position
RECURSIVE ParseIPv4Fields(_, _, _, _, _, _)
ParseIPv4Fields(s, i, val, pos, digLen, fields) ==
    IF i = Len(s)
    THEN IF pos < 3 THEN NilIP ELSE Append(fields, val)
    ELSE LET c == s[i + 1] IN
         IF IsDigit(c)
         THEN IF digLen = 1 /\ val = 0 THEN NilIP
              ELSE LET v == val * 10 + DigitVal(c) IN
                   IF v > 255 THEN NilIP
                   ELSE ParseIPv4Fields(s, i + 1, v, pos, digLen + 1, fields)
         ELSE IF c = "."
         THEN IF i = 0 \/ i = Len(s) - 1 \/ s[i] = "." THEN NilIP
              ELSE IF pos = 3 THEN NilIP
              ELSE ParseIPv4Fields(s, i + 1, 0, pos + 1, 0, Append(fields, val))
         ELSE NilIP

ParseIPv4(s) == ParseIPv4Fields(s, 0, 0, 0, 0, <<>>)

\* the number of leading hex digits of s, and their value
RECURSIVE HexRun(_)
HexRun(s) == IF s # <<>> /\ IsHex(Head(s)) THEN 1 + HexRun(Tail(s)) ELSE 0
RECURSIVE HexAcc(_, _, _)
HexAcc(s, n, acc) ==
    IF n = 0 THEN acc ELSE HexAcc(Tail(s), n - 1, acc * 16 + HexVal(Head(s)))

Zeros(n) == [k \in 1..n |-> 0]

\* the end of netip.parseIPv6: the whole text must be used, and a short address
\* is filled with zeros at the ellipsis
ParseIPv6Finish(s, i, ellipsis, ip) ==
    IF Len(s) # 0 THEN NilIP
    ELSE IF i < 16
    THEN IF ellipsis < 0 THEN NilIP
         ELSE SubSeq(ip, 1, ellipsis) \o Zeros(16 - i) \o SubSeq(ip, ellipsis + 1, i)
    ELSE IF ellipsis >= 0 THEN NilIP
    ELSE ip

\* the loop of netip.parseIPv6: s is the text left, i the bytes parsed so far,
\* ellipsis the byte position of "::" (-1 when none seen), ip the bytes so far
RECURSIVE ParseIPv6Loop(_, _, _, _)
ParseIPv6Loop(s, i, ellipsis, ip) ==
    IF i >= 16 THEN ParseIPv6Finish(s, i, ellipsis, ip)
    ELSE
    LET off == HexRun(s) IN
    IF off > 4 THEN NilIP
    ELSE IF off = 0 THEN NilIP
    ELSE IF off < Len(s) /\ s[off + 1] = "."
    THEN IF ellipsis < 0 /\ i # 12 THEN NilIP
         ELSE IF i + 4 > 16 THEN NilIP
         ELSE LET v4 == ParseIPv4(s) IN
              IF v4 = NilIP THEN NilIP
              ELSE ParseIPv6Finish(<<>>, i + 4, ellipsis, ip \o v4)
    ELSE
    LET acc == HexAcc(s, off, 0)
        ip2 == ip \o <<acc \div 256, acc % 256>>
        i2 == i + 2
        s2 == Slice(s, off, Len(s))
    IN  IF Len(s2) = 0 THEN ParseIPv6Finish(s2, i2, ellipsis, ip2)
        ELSE IF s2[1] # ":" THEN NilIP
        ELSE IF Len(s2) = 1 THEN NilIP
        ELSE LET s3 == Tail(s2) IN
             IF s3[1] = ":"
             THEN IF ellipsis >= 0 THEN NilIP
                  ELSE IF Len(s3) = 1 THEN ParseIPv6Finish(<<>>, i2, i2, ip2)
                  ELSE ParseIPv6Loop(Tail(s3), i2, i2, ip2)
             ELSE ParseIPv6Loop(s3, i2, ellipsis, ip2)

\* netip.parseIPv6: a leading "::" is an ellipsis at position 0
ParseIPv6(s) ==
    IF Len(s) >= 2 /\ s[1] = ":" /\ s[2] = ":"
    THEN IF Len(s) = 2 THEN Zeros(16)
         ELSE ParseIPv6Loop(Slice(s, 2, Len(s)), 0, 0, <<>>)
    ELSE ParseIPv6Loop(s, 0, -1, <<>>)

\* net.ParseIP: the first of '.', ':' and '%' in the text decides the family; an
\* IPv4 address is returned in its 16-byte form ::ffff:a.b.c.d; a zone is refused
ParseIP(s) ==
    LET marks == {i \in DOMAIN s : s[i] \in {".", ":", "%"}} IN
    IF marks = {} THEN NilIP
    ELSE LET m == CHOOSE i \in marks : \A j \in marks : i <= j IN
         IF s[m] = "."
         THEN LET v4 == ParseIPv4(s) IN
              IF v4 = NilIP THEN NilIP ELSE Zeros(10) \o <<255, 255>> \o v4
         ELSE IF s[m] = ":" /\ "%" \notin Range(s) THEN ParseIPv6(s)
         ELSE NilIP

\* net.IP.To4: the 4 bytes of an IPv4 or IPv4-mapped address, else nil
To4(ip) ==
    IF Len(ip) = 16 /\ SubSeq(ip, 1, 12) = Zeros(10) \o <<255, 255>>
    THEN SubSeq(ip, 13, 16) ELSE NilIP

\* net.IP.To16: the 16 bytes of any parsed address, else nil
To16(ip) == IF Len(ip) = 16 THEN ip ELSE NilIP

----------------------------------------------------------------------------
(* ValidateFssId and FormatValidIp *)

\* a label of the DNS pattern, [a-zA-Z0-9]+(-[a-zA-Z0-9]+)* : letters, digits and
\* single hyphens, with no hyphen first or last
IsDNSLabel(l) ==
    /\ l # <<>>
    /\ \A i \in DOMAIN l : IsLetter(l[i]) \/ IsDigit(l[i]) \/ l[i] = "-"
    /\ l[1] # "-" /\ l[Len(l)] # "-"
    /\ \A i \in 1..(Len(l) - 1) : ~(l[i] = "-" /\ l[i + 1] = "-")

\* the pattern ^([a-zA-Z0-9]+(-[a-zA-Z0-9]+)*\.)+[a-zA-Z]{2,}$ : one or more
\* labels, each followed by a dot, then a last label of two or more letters
RECURSIVE AllDNSLabels(_)
AllDNSLabels(s) ==
    IF s = <<>> THEN TRUE
    ELSE LET dot == Index(s, ".") IN
         /\ IsDNSLabel(Slice(s, 0, dot))
         /\ AllDNSLabels(Slice(s, dot + 1, Len(s)))

ValidateDNSName(name) ==
    LET lastDot == LastIndex(name, ".")
        tld == Slice(name, lastDot + 1, Len(name))
    IN  /\ lastDot >= 0
        /\ Len(tld) >= 2
        /\ \A i \in DOMAIN tld : IsLetter(tld[i])
        /\ AllDNSLabels(Slice(name, 0, lastDot + 1))

FSSVolumeHandler(ocid, address, path) ==
    [returned |-> TRUE, FilesystemOcid |-> ocid,
     MountTargetIPAddress |-> address, FsExportPath |-> path]
NoHandler ==
    [returned |-> FALSE, FilesystemOcid |-> <<>>,
     MountTargetIPAddress |-> <<>>, FsExportPath |-> <<>>]

\* volumeHandler.MountTargetIPAddress = id[firstColon+1 : lastColon]
MountTargetTrimmed(id, firstColon, lastColon) ==
    Trim(Slice(id, firstColon + 1, lastColon), Brackets)
MountTargetOf(id, firstColon, lastColon) == Slice(id, firstColon + 1, lastColon)

\* a ValidateFssId that takes a colon at position 0 for a first colon
ValidateFssIdFromZero(id) ==
    IF id = <<>> THEN FSSVolumeHandler(<<>>, <<>>, <<>>)
    ELSE
    LET firstColon == Index(id, ":")
        lastColon == LastIndex(id, ":")
    IN  IF /\ firstColon >= 0 /\ lastColon < Len(id) - 1 /\ firstColon # lastColon
           /\ \/ ParseIP(Trim(Slice(id, firstColon + 1, lastColon), Brackets)) # NilIP
              \/ ValidateDNSName(Slice(id, firstColon + 1, lastColon))
        THEN FSSVolumeHandler(Slice(id, 0, firstColon),
                              MountTargetOf(id, firstColon, lastColon),
                              Slice(id, lastColon + 1, Len(id)))
        ELSE FSSVolumeHandler(<<>>, <<>>, <<>>)

ValidateFssId(id) ==
    IF id = <<>> THEN FSSVolumeHandler(<<>>, <<>>, <<>>)
    ELSE
    LET firstColon == Index(id, ":")
        lastColon == LastIndex(id, ":")
    IN  IF /\ firstColon > 0 /\ lastColon < Len(id) - 1 /\ firstColon # lastColon
           /\ \/ ParseIP(Trim(Slice(id, firstColon + 1, lastColon), Brackets)) # NilIP
              \/ ValidateDNSName(Slice(id, firstColon + 1, lastColon))
        THEN FSSVolumeHandler(Slice(id, 0, firstColon),
                              MountTargetOf(id, firstColon, lastColon),
                              Slice(id, lastColon + 1, Len(id)))
        ELSE FSSVolumeHandler(<<>>, <<>>, <<>>)

\* a FormatValidIp that brackets every address that parses, IPv4 included
FormatValidIpNoTo4(ipAddress) ==
    IF To16(ParseIP(ipAddress)) # NilIP
    THEN <<"[">> \o Trim(ipAddress, Brackets) \o <<"]">>
    ELSE ipAddress

FormatValidIp(ipAddress) ==
    IF To4(ParseIP(ipAddress)) # NilIP THEN ipAddress
    ELSE IF To16(ParseIP(ipAddress)) # NilIP
    THEN <<"[">> \o Trim(ipAddress, Brackets) \o <<"]">>
    ELSE ipAddress

\* the handle string of a handler: filesystemId:address:exportPath, the address
\* formatted by FormatValidIp
Serialize(h) ==
    h.FilesystemOcid \o <<":">> \o FormatValidIp(h.MountTargetIPAddress)
        \o <<":">> \o h.FsExportPath

\* the characters the middle field is built from, and its greatest length
MidAlphabet == {"1", "a", ":", ".", "[", "]"}
MaxMidLen == 5

Mids == UNION {[1..n -> MidAlphabet] : n \in 0..MaxMidLen}

\* middle fields beyond that length: IPv4, IPv4-mapped and full IPv6 literals,
\* bare and bracketed, DNS names, and near misses of each
LongMids ==
    {<<"1", ".", "1", ".", "1", ".", "1">>,
     <<"[", "1", ".", "1", ".", "1", ".", "1", "]">>,
     <<"1", "0", ".", "0", ".", "0", ".", "5">>,
     <<"2", "5", "6", ".", "1", ".", "1", ".", "1">>,
     <<"0", "1", ".", "1", ".", "1", ".", "1">>,
     <<":", ":", "f", "f", "f", "f", ":", "1", ".", "1", ".", "1", ".", "1">>,
     <<"[", ":", ":", "f", "f", "f", "f", ":", "1", ".", "1", ".", "1", ".", "1", "]">>,
     <<"f", "d", "0", "0", ":", "0", "0", "c", "1", ":", ":", "a", "9", "f", "e", ":", "2", "0", "2">>,
     <<"[", "f", "d", "0", "0", ":", "0", "0", "c", "1", ":", ":", "a", "9", "f", "e", ":", "2", "0", "2", "]">>,
     <<"1", ":", "2", ":", "3", ":", "4", ":", "5", ":", "6", ":", "7", ":", "8">>,
     <<"1", ":", "2", ":", "3", ":", "4", ":", "5", ":", "6", ":", "7", ":", "8", ":", "9">>,
     <<"g", ":", ":", "1">>,
     <<"m", "t", "-", "1", ".", "o", "c", "i", ".", "c", "o", "m">>,
     <<"m", "-", "-", "t", ".", "c", "o", "m">>,
     <<"-", "m", ".", "c", "o", "m">>,
     <<"m", ".", "c">>,
     <<"m", ".", "c", "0", "m">>,
     <<"l", "o", "c", "a", "l", "h", "o", "s", "t">>}

\* whole ids that are no three-field handle
OddIds ==
    {<<>>, <<"n", "o">>, <<":">>, <<":", ":">>, <<"o", ":", "/">>,
     <<"o", ":", ":", "/">>, <<"o", ":", "1", ".", "1", ".", "1", ".", "1">>}

FssIds ==
    OddIds
    \cup {<<"o", ":">> \o m \o <<":", "/">> : m \in Mids \cup LongMids}
    \cup {f \o <<":">> \o m \o <<":">> \o e :
              f \in {<<>>, <<"o", "c">>}, m \in LongMids, e \in {<<>>, <<"/", "e">>}}

FssIdle == fssId = <<>> /\ fssOut = NoHandler /\ fssBack = NoHandler

----------------------------------------------------------------------------
(* GetNodeIpFamily *)

LowerLetters ==
    <<"a", "b", "c", "d", "e", "f", "g", "h", "i", "j", "k", "l", "m",
      "n", "o", "p", "q", "r", "s", "t", "u", "v", "w", "x", "y", "z">>
UpperLetters ==
    <<"A", "B", "C", "D", "E", "F", "G", "H", "I", "J", "K", "L", "M",
      "N", "O", "P", "Q", "R", "S", "T", "U", "V", "W", "X", "Y", "Z">>

\* the case folding of strings.EqualFold on the characters used here
Fold(c) ==
    IF c \in Range(UpperLetters)
    THEN LowerLetters[CHOOSE i \in DOMAIN UpperLetters : UpperLetters[i] = c]
    ELSE c

\* strings.EqualFold: equal up to the case of the letters
EqualExact(s, t) == s = t
EqualFold(s, t) ==
    /\ Len(s) = Len(t)
    /\ \A i \in DOMAIN s : Fold(s[i]) = Fold(t[i])

Ipv6Stack == <<"I", "P", "v", "6">>
Ipv4Stack == <<"I", "P", "v", "4">>
TrueText == <<"t", "r", "u", "e">>

FormatValidIpStackInK8SConvention(ipStack) ==
    IF EqualFold(ipStack, Ipv4Stack) THEN Ipv4Stack
    ELSE IF EqualFold(ipStack, Ipv6Stack) THEN Ipv6Stack
    ELSE ipStack

\* a label of the node: absent, or present with a value
AbsentLabel == [present |-> FALSE, value |-> <<>>]
LabelOf(v) == [present |-> TRUE, value |-> v]

\* the values tried for the ip-family-ipv4 and ip-family-ipv6 labels
EnabledValues ==
    {<<"t", "r", "u", "e">>, <<"T", "R", "U", "E">>, <<"T", "r", "u", "e">>,
     <<"f", "a", "l", "s", "e">>, <<>>, <<"1">>, <<"t", "r", "u", "e", "e">>}

\* the values tried for the ip-family-preferred label
PreferredValues ==
    {<<"I", "P", "v", "4">>, <<"i", "p", "v", "4">>, <<"I", "P", "V", "4">>,
     <<"I", "P", "v", "6">>, <<"i", "p", "v", "6">>, <<>>, <<"d", "u", "a", "l">>}

\* what Nodes().Get gives: an error, a node without labels (n.Labels == nil),
\* or a node with any combination of the three labels
NoLabels ==
    [err |-> FALSE, nilLabels |-> TRUE,
     preferred |-> AbsentLabel, ipv4 |-> AbsentLabel, ipv6 |-> AbsentLabel]
GetFailed == [NoLabels EXCEPT !.err = TRUE]
NodeInputs ==
    {NoLabels, GetFailed} \cup
    [err : {FALSE}, nilLabels : {FALSE},
     preferred : {AbsentLabel} \cup {LabelOf(v) : v \in PreferredValues},
     ipv4 : {AbsentLabel} \cup {LabelOf(v) : v \in EnabledValues},
     ipv6 : {AbsentLabel} \cup {LabelOf(v) : v \in EnabledValues}]

NodeIpFamily(preferred, ipv4Enabled, ipv6Enabled) ==
    [returned |-> TRUE, failed |-> FALSE, PreferredNodeIpFamily |-> preferred,
     Ipv4Enabled |-> ipv4Enabled, Ipv6Enabled |-> ipv6Enabled]
\* return nil, fmt.Errorf(...)
NodeIpFamilyError ==
    [returned |-> TRUE, failed |-> TRUE, PreferredNodeIpFamily |-> <<>>,
     Ipv4Enabled |-> FALSE, Ipv6Enabled |-> FALSE]
NoNodeIpFamily ==
    [returned |-> FALSE, failed |-> FALSE, PreferredNodeIpFamily |-> <<>>,
     Ipv4Enabled |-> FALSE, Ipv6Enabled |-> FALSE]

GetNodeIpFamily(n) ==
    IF n.err THEN NodeIpFamilyError
    ELSE
    LET preferredNodeIpFamily ==
            IF ~n.nilLabels /\ n.preferred.present
            THEN FormatValidIpStackInK8SConvention(n.preferred.value)
            ELSE <<>>
        ipv4Enabled ==
            ~n.nilLabels /\ n.ipv4.present /\ EqualFold(n.ipv4.value, TrueText)
        ipv6Enabled ==
            ~n.nilLabels /\ n.ipv6.present /\ EqualFold(n.ipv6.value, TrueText)
    IN  IF ~ipv4Enabled /\ ~ipv6Enabled
        THEN NodeIpFamily(Ipv4Stack, TRUE, ipv6Enabled)
        ELSE NodeIpFamily(preferredNodeIpFamily, ipv4Enabled, ipv6Enabled)

NodeIdle == nodeIn = NoLabels /\ nodeOut = NoNodeIpFamily

Init == InitLocks /\ CapIdle /\ FssIdle /\ NodeIdle

Next ==
    \/ \E p \in Procs, v \in VolumeIDs : CallTryAcquire(p, v)
    \/ \E p \in Procs, v \in VolumeIDs : CallRelease(p, v)
    \/ \E p \in Procs : TryAcquireLock(p)
    \/ \E p \in Procs : TryAcquireHas(p)
    \/ \E p \in Procs : TryAcquireInsert(p)
    \/ \E p \in Procs : TryAcquireUnlock(p)
    \/ \E p \in Procs : ReleaseLock(p)
    \/ \E p \in Procs : ReleaseDelete(p)
    \/ \E p \in Procs : ReleaseUnlock(p)

Spec == Init /\ [][Next]_vars

\* the same calls, with the ownership history recorded
InitOwn ==
    /\ locks = {}
    /\ mux = NoProc
    /\ pc = [p \in Procs |-> "idle"]
    /\ arg = [p \in Procs |-> NoVol]
    /\ ret = [p \in Procs |-> "none"]
    /\ was = [p \in Procs |-> FALSE]
    /\ wins = [v \in VolumeIDs |-> 0]
    /\ holder = [v \in VolumeIDs |-> NoProc]
    /\ tracked \in VolumeIDs
    /\ inside = [p \in Procs |-> FALSE]
    /\ foreign = FALSE
    /\ CapIdle
    /\ FssIdle
    /\ NodeIdle

SpecOwn == InitOwn /\ [][Next]_vars

\* The goroutine scheduler runs every runnable goroutine, and sync.Mutex hands a
\* waiter the mutex after a bounded wait (starvation mode): a call in progress
\* keeps taking steps, and a Lock that is enabled again and again succeeds.
FairSpec ==
    /\ Spec
    /\ \A p \in Procs :
          /\ WF_vars(TryAcquireHas(p) \/ TryAcquireInsert(p) \/ TryAcquireUnlock(p))
          /\ WF_vars(ReleaseDelete(p) \/ ReleaseUnlock(p))
          /\ SF_vars(TryAcquireLock(p) \/ ReleaseLock(p))

\* ExtractStorage is called on some capacity range and returns
InitCap ==
    /\ InitLocks
    /\ FssIdle
    /\ NodeIdle
    /\ capRange \in CapRanges
    /\ capOut = NotReturned

CallExtractStorage ==
    /\ ~capOut.done
    /\ capOut' = ExtractStorage(capRange)
    /\ UNCHANGED <<capRange, lockVars, fssVars, nodeVars>>

NextCap == CallExtractStorage

SpecCap == InitCap /\ [][NextCap]_vars

\* ValidateFssId is called on some id; the handler it returns is serialized and
\* parsed again
InitFss ==
    /\ InitLocks
    /\ CapIdle
    /\ NodeIdle
    /\ fssId \in FssIds
    /\ fssOut = NoHandler
    /\ fssBack = NoHandler

CallValidateFssId ==
    /\ ~fssOut.returned
    /\ fssOut' = ValidateFssId(fssId)
    /\ UNCHANGED <<fssId, fssBack, lockVars, capVars, nodeVars>>

ReparseSerialized ==
    /\ fssOut.returned
    /\ ~fssBack.returned
    /\ fssBack' = ValidateFssId(Serialize(fssOut))
    /\ UNCHANGED <<fssId, fssOut, lockVars, capVars, nodeVars>>

NextFss ==
    \/ CallValidateFssId
    \/ ReparseSerialized

SpecFss == InitFss /\ [][NextFss]_vars

\* GetNodeIpFamily is called on a node and returns
InitNode ==
    /\ InitLocks
    /\ CapIdle
    /\ FssIdle
    /\ nodeIn \in NodeInputs
    /\ nodeOut = NoNodeIpFamily

CallGetNodeIpFamily ==
    /\ ~nodeOut.returned
    /\ nodeOut' = GetNodeIpFamily(nodeIn)
    /\ UNCHANGED <<nodeIn, lockVars, capVars, fssVars>>

NextNode == CallGetNodeIpFamily

SpecNode == InitNode /\ [][NextNode]_vars

----------------------------------------------------------------------------
(* Claims about VolumeLocks *)

\* p's TryAcquire produces its result in this step
Returns(p) == ret[p] = "none" /\ ret'[p] # "none"

\* C1: TryAcquire(id) returns true exactly when id was not in the held set just
\* before its critical section ran; returning true it leaves id held, returning
\* false it leaves the held set unchanged; a TryAcquire(id) after one that
\* returned true, with no Release(id) in between, returns false.
C1_TryAcquireContract ==
    [][\A p \in Procs : Returns(p) =>
          /\ (ret'[p] = "true") <=> ~was[p]
          /\ wins[arg[p]] >= 1 => ret'[p] = "false"
          /\ was[p] <=> (arg[p] \in locks)
          /\ ret'[p] = "true" => arg[p] \in locks'
          /\ ret'[p] = "false" => locks' = locks]_vars

\* a caller whose own earlier TryAcquire(id) put id in the set has tried again
\* with no Release in between, and is being answered false
C1_Witness ==
    \E p \in Procs :
        /\ pc[p] = "ta_unlock" /\ ret[p] = "false" /\ was[p]
        /\ holder[arg[p]] = p /\ arg[p] \in locks

\* C2: under every interleaving no id is acquired twice without a Release in
\* between, and the held set is exactly the set of ids acquired and not yet
\* released (no update is lost); critical sections never overlap.
C2_NoDoubleAcquire ==
    /\ \A v \in VolumeIDs : wins[v] <= 1 /\ (v \in locks <=> wins[v] = 1)
    /\ \A p, q \in Procs :
          (p # q /\ pc[p] \in {"ta_has", "ta_insert", "ta_unlock", "rel_delete", "rel_unlock"})
             => pc[q] \in {"idle", "ta_lock", "rel_lock"}

\* two calls of TryAcquire on the same id overlap: one has won the id and still
\* holds the mutex, the other is waiting for the mutex
C2_Witness ==
    \E p, q \in Procs :
        /\ p # q /\ arg[p] = arg[q]
        /\ pc[p] = "ta_unlock" /\ ret[p] = "true" /\ ~was[p]
        /\ pc[q] = "ta_lock"

\* C3: Release(id) leaves id not held whatever held it; when id was not held the
\* set is unchanged; and a TryAcquire(id) with no successful acquire of id since
\* the last Release(id) returns true.
C3_ReleaseRemoves ==
    [][\A p \in Procs :
          /\ (pc[p] = "rel_delete" /\ pc'[p] = "rel_unlock") =>
                /\ arg[p] \notin locks'
                /\ \A v \in VolumeIDs : v # arg[p] => (v \in locks' <=> v \in locks)
                /\ arg[p] \notin locks => locks' = locks
          /\ (Returns(p) /\ wins[arg[p]] = 0) => ret'[p] = "true"]_vars

\* a Release has just removed an id that another caller had acquired
C3_Witness ==
    \E p \in Procs :
        /\ pc[p] = "rel_unlock" /\ was[p] /\ arg[p] \notin locks

\* C4: a step of a call on id a never changes whether another id b is held, and
\* the result of TryAcquire(a) is decided by a alone: it is the same whether or
\* not any other id is held.
C4_DistinctIdsIndependent ==
    [][\A p \in Procs : pc[p] # "idle" /\ pc'[p] # pc[p] =>
          /\ \A b \in VolumeIDs \ {arg[p]} : (b \in locks') <=> (b \in locks)
          /\ Returns(p) => (ret'[p] = "false" <=> arg[p] \in locks)]_vars

\* TryAcquire(a) has returned true while another id b is held
C4_Witness ==
    \E p \in Procs : \E b \in VolumeIDs :
        /\ pc[p] = "ta_unlock" /\ ret[p] = "true"
        /\ b # arg[p] /\ b \in locks /\ holder[b] # p

\* some call in progress can take a step, unless no call is in progress
NoCallerStuck == (\A p \in Procs : pc[p] = "idle") \/ (\E p \in Procs : ENABLED Step(p))

\* C5: the gate never blocks: no state is stuck, and under fair scheduling every
\* call in progress returns, a TryAcquire(v) by the holder of v included.
C5_NeverBlocks ==
    /\ []NoCallerStuck
    /\ \A p \in Procs : (pc[p] # "idle") ~> (pc[p] = "idle")

\* the caller that holds v is inside TryAcquire(v) again and is answered false
C5_Witness ==
    \E p \in Procs :
        /\ pc[p] = "ta_unlock" /\ ret[p] = "false"
        /\ holder[arg[p]] = p
        /\ \E q \in Procs : q # p /\ pc[q] \in {"ta_lock", "rel_lock"}

----------------------------------------------------------------------------
(* Claims about ExtractStorage *)

\* C6: for every capacity range (here: every range of non-negative sizes, and
\* the absent range) ExtractStorage fails or returns a size within
\* [minimum, maximum].
C6_WithinPolicyBounds ==
    (capOut.done /\ capRange.required >= 0 /\ capRange.limit >= 0) =>
        \/ capOut.err # ""
        \/ /\ MinimumVolumeSizeInBytes <= capOut.size
           /\ capOut.size <= MaximumVolumeSizeInBytes

\* C7: with limitBytes unset (0) and requiredBytes above the maximum,
\* ExtractStorage fails with the required-exceeds-maximum error.
C7_RequiredAboveMaxFails ==
    (/\ capOut.done /\ ~capRange.nil
     /\ capRange.limit = 0
     /\ capRange.required > MaximumVolumeSizeInBytes)
        => capOut.err = "required can not exceed maximum supported volume size"

----------------------------------------------------------------------------
(* Claims about ValidateFssId *)

\* the handler holds a parse (its fields are not all empty)
Accepted(h) ==
    h.returned /\
    (h.FilesystemOcid # <<>> \/ h.MountTargetIPAddress # <<>> \/ h.FsExportPath # <<>>)

\* the three parts of fssId as the claim words them: around its first and its
\* last colon
Colons == {i \in DOMAIN fssId : fssId[i] = ":"}
FirstColonAt == CHOOSE i \in Colons : \A j \in Colons : i <= j
LastColonAt == CHOOSE i \in Colons : \A j \in Colons : j <= i
BeforeFirstColon == SubSeq(fssId, 1, FirstColonAt - 1)
BetweenColons == SubSeq(fssId, FirstColonAt + 1, LastColonAt - 1)
AfterLastColon == SubSeq(fssId, LastColonAt + 1, Len(fssId))

\* s without the pair of brackets that encloses it, if one does
Unbracketed(s) ==
    IF Len(s) >= 2 /\ s[1] = "[" /\ s[Len(s)] = "]" THEN SubSeq(s, 2, Len(s) - 1) ELSE s

\* s is an IPv6 literal (one that is not an IPv4-mapped address)
IsIPv6Literal(s) == ParseIP(s) # NilIP /\ To4(ParseIP(s)) = NilIP

\* C9 as stated: on acceptance the address is the text between the first and
\* the last colon with its enclosing brackets removed.
C9_AddressUnbracketed ==
    Accepted(fssOut) =>
        /\ fssOut.FilesystemOcid = BeforeFirstColon
        /\ fssOut.MountTargetIPAddress = Unbracketed(BetweenColons)
        /\ fssOut.FsExportPath = AfterLastColon

\* C9 (amended): on acceptance filesystemId is the text before the first colon,
\* exportPath the text after the last colon, and mountTargetAddress the text
\* between the two exactly as written: a bracketed IPv6 literal keeps its
\* brackets.
C9_AddressVerbatim ==
    Accepted(fssOut) =>
        /\ Colons # {}
        /\ fssOut.FilesystemOcid = BeforeFirstColon
        /\ fssOut.MountTargetIPAddress = BetweenColons
        /\ fssOut.FsExportPath = AfterLastColon
        /\ IsIPv6Literal(Unbracketed(BetweenColons)) /\ BetweenColons[1] = "["
              => fssOut.MountTargetIPAddress[1] = "["

\* an id whose middle field is a bracketed IPv6 literal has been accepted
C9_Witness ==
    /\ Accepted(fssOut)
    /\ Len(BetweenColons) >= 4
    /\ BetweenColons[1] = "[" /\ BetweenColons[Len(BetweenColons)] = "]"
    /\ IsIPv6Literal(Unbracketed(BetweenColons))
    /\ fssOut.MountTargetIPAddress = BetweenColons

\* C10 as stated: serializing the parsed fields (FormatValidIp on the address)
\* and parsing again gives the same three fields, the all-empty handler included.
C10_RoundTripExact ==
    fssBack.returned => fssBack = fssOut

\* C10 (amended): the round trip reproduces filesystemId and exportPath; it
\* reproduces the address unless the address is an unbracketed IPv6 literal,
\* which comes back in brackets; the handler it yields, and the all-empty
\* handler, are fixed points.
C10_RoundTripUpToBrackets ==
    fssBack.returned =>
        /\ fssBack.FilesystemOcid = fssOut.FilesystemOcid
        /\ fssBack.FsExportPath = fssOut.FsExportPath
        /\ fssBack.MountTargetIPAddress =
              IF IsIPv6Literal(fssOut.MountTargetIPAddress)
              THEN <<"[">> \o fssOut.MountTargetIPAddress \o <<"]">>
              ELSE fssOut.MountTargetIPAddress
        /\ ValidateFssId(Serialize(fssBack)) = fssBack
        /\ ~Accepted(fssOut) => ~Accepted(fssBack)

\* an accepted handler with a bracketed IPv6 address has come back unchanged
C10_Witness ==
    /\ fssBack.returned /\ Accepted(fssOut)
    /\ IsIPv6Literal(Unbracketed(fssOut.MountTargetIPAddress))
    /\ fssOut.MountTargetIPAddress[1] = "["
    /\ fssBack = fssOut

\* the text between the first and the last colon is neither an IP literal
\* (brackets aside) nor a DNS name
InvalidMiddle ==
    /\ ParseIP(Trim(BetweenColons, Brackets)) = NilIP
    /\ ~ValidateDNSName(BetweenColons)

\* C11: ValidateFssId returns, for every input, a handler whose three fields
\* are all empty or all non-empty; the empty string, a string with no colon or
\* a single colon, and a string whose first and last colon enclose an empty or
\* invalid middle all give the all-empty handler.
C11_AllOrNothing ==
    fssOut.returned =>
        /\ \/ /\ fssOut.FilesystemOcid = <<>>
              /\ fssOut.MountTargetIPAddress = <<>>
              /\ fssOut.FsExportPath = <<>>
           \/ /\ fssOut.FilesystemOcid # <<>>
              /\ fssOut.MountTargetIPAddress # <<>>
              /\ fssOut.FsExportPath # <<>>
        /\ (fssId = <<>> \/ Cardinality(Colons) <= 1) => ~Accepted(fssOut)
        /\ (Cardinality(Colons) >= 2 /\ (BetweenColons = <<>> \/ InvalidMiddle))
              => ~Accepted(fssOut)

\* an id with text before its first colon and after its last, and a non-empty
\* invalid middle between them, has been given the all-empty handler
C11_Witness ==
    /\ fssOut.returned /\ ~Accepted(fssOut)
    /\ Cardinality(Colons) >= 2
    /\ BeforeFirstColon # <<>> /\ AfterLastColon # <<>>
    /\ BetweenColons # <<>> /\ InvalidMiddle

----------------------------------------------------------------------------
(* Claims about GetNodeIpFamily *)

\* the label is present and spells "true" in some mix of cases
SaysTrue(l) ==
    /\ l.present /\ Len(l.value) = 4
    /\ l.value[1] \in {"t", "T"} /\ l.value[2] \in {"r", "R"}
    /\ l.value[3] \in {"u", "U"} /\ l.value[4] \in {"e", "E"}

\* the label spells IPv<digit> in some mix of cases
SpellsStack(l, digit) ==
    /\ l.present /\ Len(l.value) = 4
    /\ l.value[1] \in {"i", "I"} /\ l.value[2] \in {"p", "P"}
    /\ l.value[3] \in {"v", "V"} /\ l.value[4] = digit

\* the preferred label as GetNodeIpFamily reflects it: nothing when absent,
\* IPv4 / IPv6 in that spelling when it names one of them, else as given
PreferredAsGiven ==
    IF ~nodeIn.preferred.present THEN <<>>
    ELSE IF SpellsStack(nodeIn.preferred, "4") THEN <<"I", "P", "v", "4">>
    ELSE IF SpellsStack(nodeIn.preferred, "6") THEN <<"I", "P", "v", "6">>
    ELSE nodeIn.preferred.value

\* C12: for every combination of the three labels the returned NodeIpFamily has
\* Ipv4Enabled or Ipv6Enabled; when neither the ipv4 nor the ipv6 label says
\* true it is {Ipv4Enabled: true, Ipv6Enabled: false, preferred: IPv4} whatever
\* the preferred label, and otherwise it reflects the three labels.
C12_NodeIpFamilyDefault ==
    (nodeOut.returned /\ ~nodeIn.err) =>
        /\ ~nodeOut.failed
        /\ nodeOut.Ipv4Enabled \/ nodeOut.Ipv6Enabled
        /\ IF ~SaysTrue(nodeIn.ipv4) /\ ~SaysTrue(nodeIn.ipv6)
           THEN /\ nodeOut.Ipv4Enabled /\ ~nodeOut.Ipv6Enabled
                /\ nodeOut.PreferredNodeIpFamily = <<"I", "P", "v", "4">>
           ELSE /\ nodeOut.Ipv4Enabled = SaysTrue(nodeIn.ipv4)
                /\ nodeOut.Ipv6Enabled = SaysTrue(nodeIn.ipv6)
                /\ nodeOut.PreferredNodeIpFamily = PreferredAsGiven

\* a node that prefers IPv6 but whose ipv4 and ipv6 labels are present and do
\* not say true has been given the IPv4 default
C12_Witness ==
    /\ nodeOut.returned /\ ~nodeOut.failed
    /\ SpellsStack(nodeIn.preferred, "6")
    /\ nodeIn.ipv4.present /\ nodeIn.ipv6.present
    /\ ~SaysTrue(nodeIn.ipv4) /\ ~SaysTrue(nodeIn.ipv6)
    /\ nodeOut.Ipv4Enabled /\ ~nodeOut.Ipv6Enabled
    /\ nodeOut.PreferredNodeIpFamily = <<"I", "P", "v", "4">>

----------------------------------------------------------------------------
(* Claims about Release and ownership *)

\* the callers inside their operation on the tracked id
Inside == {p \in Procs : inside[p]}

\* C13: Release does not check ownership. For every id, two callers are inside
\* their operation on it only after a Release of that id removed the entry of a
\* caller other than the one that issued it; while every Release(id) comes from
\* the caller whose TryAcquire(id) last returned true, at most one caller is
\* inside id, it is the one that inserted the entry, and the entry is there.
C13_ExclusiveUnlessForeignRelease ==
    ~foreign =>
        /\ Cardinality(Inside) <= 1
        /\ \A p \in Inside : tracked \in locks /\ holder[tracked] = p

\* A acquired the id, another caller's Release of it removed A's entry, and C's
\* TryAcquire of it returned true: A and C are both inside their operation on it
C13_Witness ==
    \E a, c \in Procs :
        /\ a # c
        /\ inside[a] /\ inside[c]
        /\ pc[a] = "idle" /\ pc[c] = "idle"
        /\ foreign
        /\ tracked \in locks /\ holder[tracked] = c

====
